---- MODULE Spec2Model ----
(***************************************************************************)
(* Model of daily_trending.py: one batch run of main() -- fetch the        *)
(* trending page through a retrying HTTP session, extract the top rows,    *)
(* render the e-mail and hand it to the e-mail API -- together with the    *)
(* pure helpers parse_trending_top10 and parse_recipients.                 *)
(*                                                                         *)
(* Strings are sequences of one-character strings.  An exception is a      *)
(* record [type, msg, group]: the Python class raised, a label for its     *)
(* message, and, for a sandbox rejection of the e-mail API, the text the   *)
(* regular expression of send_email captures.                              *)
(***************************************************************************)
EXTENDS Integers, Sequences, FiniteSets, TLC

VARIABLES
    pc,           \* position in main(): the statement executed next
    no_email,     \* args.no_email
    env,          \* os.environ restricted to the three names send_email reads
    retries,      \* the urllib3 Retry object of the session's adapter
    requests,     \* number of HTTP GET requests sent for TRENDING_URL
    status_code,  \* resp.status_code of the response session.get returned
    html,         \* the page: the sequence of article.Box-row rows
    repos,        \* result of parse_trending_top10
    email_html,   \* result of build_html_email
    recipients,   \* result of parse_recipients in send_email
    env_read,     \* names passed to require_env so far
    sent,         \* params of every resend.Emails.send call, in order
    results,      \* outcome of every resend.Emails.send call, in order
    resp,         \* value send_email returned
    exc,          \* exception propagating to main's except clause
    stdout,       \* what main printed on standard output
    exit,         \* main's return value
    stages        \* pipeline stages entered so far

vars == <<pc, no_email, env, retries, requests, status_code, html, repos,
          email_html, recipients, env_read, sent, results, resp, exc,
          stdout, exit, stages>>

----------------------------------------------------------------------------
(* Bounds of the model *)

\* longest raw recipient string given to parse_recipients alone
MaxRawLen == 5

\* longest RECIPIENT_EMAIL value given to send_email alone
MaxConfigLen == 3

\* most rows on a page
MaxRows == 11

\* most rows without a title anchor on a page returned to main()
MaxBadRows == 1

\* longest text captured from a sandbox rejection message
MaxGroupLen == 2

----------------------------------------------------------------------------
(* Characters and strings *)

Whitespace == {" "}

Delimiters == {","} \cup Whitespace

Letters == {"a", "b"}

Chars == Letters \cup Delimiters

RECURSIVE StringsUpTo(_, _)
StringsUpTo(alphabet, n) ==
    IF n = 0 THEN {<<>>}
    ELSE LET shorter == StringsUpTo(alphabet, n - 1)
         IN  shorter \cup {Append(s, c) : s \in {t \in shorter : Len(t) = n - 1},
                                          c \in alphabet}

\* str.strip(): leading and trailing whitespace removed
RECURSIVE strip(_)
strip(s) ==
    IF s = <<>> THEN s
    ELSE IF Head(s) \in Whitespace THEN strip(Tail(s))
    ELSE IF s[Len(s)] \in Whitespace THEN strip(SubSeq(s, 1, Len(s) - 1))
    ELSE s

\* first index >= i of s that holds no delimiter (Len(s) + 1 if none)
RECURSIVE SkipRun(_, _)
SkipRun(s, i) ==
    IF i > Len(s) \/ s[i] \notin Delimiters THEN i ELSE SkipRun(s, i + 1)

\* re.split(r"[,\s]+", s) continued at index i with the piece cur open: the
\* pieces between maximal runs of delimiters, empty pieces at the ends kept
RECURSIVE SplitFrom(_, _, _)
SplitFrom(s, i, cur) ==
    IF i > Len(s) THEN <<cur>>
    ELSE IF s[i] \in Delimiters THEN <<cur>> \o SplitFrom(s, SkipRun(s, i), <<>>)
    ELSE SplitFrom(s, i + 1, Append(cur, s[i]))

re_split(s) == SplitFrom(s, 1, <<>>)

\* [p.strip() for p in pieces if p.strip()]
RECURSIVE StripNonEmpty(_)
StripNonEmpty(pieces) ==
    IF pieces = <<>> THEN <<>>
    ELSE IF strip(Head(pieces)) = <<>> THEN StripNonEmpty(Tail(pieces))
    ELSE <<strip(Head(pieces))>> \o StripNonEmpty(Tail(pieces))

\* the loop of parse_recipients: append p unless already seen
RECURSIVE Dedupe(_, _)
Dedupe(parts, out) ==
    IF parts = <<>> THEN out
    ELSE IF \E k \in 1..Len(out) : out[k] = Head(parts)
         THEN Dedupe(Tail(parts), out)
         ELSE Dedupe(Tail(parts), Append(out, Head(parts)))

\* faulty variant: the seen-set is never consulted
parse_recipients_keep_duplicates(raw) == StripNonEmpty(re_split(raw))

parse_recipients(raw) == Dedupe(StripNonEmpty(re_split(raw)), <<>>)

----------------------------------------------------------------------------
(* The page and its extraction *)

\* rows[:10]
rows_limit == 10

\* if len(repos) < 10
min_repos == 10

\* a row: whether "h2 a[href]" selects an anchor, and that anchor's href
Row(i, anchor) == [has_anchor |-> anchor, href |-> IF anchor THEN i ELSE 0]

\* pages of n rows; the i-th row's anchor, if any, has the href i
PagesOfLen(n) == {[i \in 1..n |-> Row(i, f[i])] : f \in [1..n -> BOOLEAN]}

AllPages == UNION {PagesOfLen(n) : n \in 0..MaxRows}

Seq2Set(q) == {q[i] : i \in 1..Len(q)}

BadRows(page) == {i \in 1..Len(page) : ~page[i].has_anchor}

TrendingRepo(row) == [url |-> <<"https://github.com", row.href>>]

\* the loop body of parse_trending_top10 over the rows given
RECURSIVE ExtractRows(_)
ExtractRows(rows) ==
    IF rows = <<>> THEN <<>>
    ELSE IF ~Head(rows).has_anchor THEN ExtractRows(Tail(rows))
    ELSE <<TrendingRepo(Head(rows))>> \o ExtractRows(Tail(rows))

FirstRows(rows, n) == SubSeq(rows, 1, IF Len(rows) < n THEN Len(rows) ELSE n)

\* faulty variant: rows without a title anchor are dropped before the cut to 10
parse_trending_filter_first(page) == FirstRows(ExtractRows(page), rows_limit)

parse_trending_top10(page) == ExtractRows(FirstRows(page, rows_limit))

----------------------------------------------------------------------------
(* Exceptions *)

NoExc == [type |-> "None", msg |-> "", group |-> <<>>]

Exc(type, msg) == [type |-> type, msg |-> msg, group |-> <<>>]

\* the e-mail API's rejection "... your own email address (<group>) ..."
SandboxRejection(group) ==
    [type |-> "ResendError", msg |-> "own email address", group |-> group]

----------------------------------------------------------------------------
(* The retrying HTTP session *)

\* Retry(total=3, ...)
retry_total == 3

\* Retry(connect=3, ...)
retry_connect == 3

\* Retry(read=3, ...)
retry_read == 3

\* Retry(status=3, ...)
retry_status == 3

status_forcelist == {429, 500, 502, 503, 504}

\* statuses the server may answer with
Statuses == {200, 304, 404} \cup status_forcelist

\* what one HTTP attempt can end in
AttemptOutcomes ==
    {[kind |-> k, status |-> 0] : k \in {"connect_error", "read_error"}}
        \cup {[kind |-> "response", status |-> s] : s \in Statuses}

NoRetry == [total |-> 0, connect |-> 0, read |-> 0, status |-> 0]

\* faulty variant: one retry more than configured
new_retry_one_more ==
    [total |-> retry_total + 1, connect |-> retry_connect + 1,
     read |-> retry_read + 1, status |-> retry_status + 1]

\* the Retry object create_session builds
new_retry ==
    [total |-> retry_total, connect |-> retry_connect,
     read |-> retry_read, status |-> retry_status]

\* Retry.increment: total and the counter of the failure's kind go down by one
increment(r, o) ==
    [total   |-> r.total - 1,
     connect |-> IF o.kind = "connect_error" THEN r.connect - 1 ELSE r.connect,
     read    |-> IF o.kind = "read_error" THEN r.read - 1 ELSE r.read,
     status  |-> IF o.kind = "response" THEN r.status - 1 ELSE r.status]

\* Retry.is_exhausted: a counter that is set fell below zero
is_exhausted(r) ==
    \E x \in {r.total, r.connect, r.read, r.status} : x # 0 /\ x < 0

\* Retry.is_retry for a GET (GET is in allowed_methods)
is_retry(status) == status \in status_forcelist

\* faulty variant: client errors pass
raise_for_status_server_only(status) == 500 <= status /\ status < 600

\* Response.raise_for_status raises HTTPError: 4xx and 5xx
raise_for_status(status) == 400 <= status /\ status < 600

\* how the attempt with outcome o ends, the Retry object being r:
\* retried, MaxRetryError raised, or the response handed back
AttemptEnds(r, o) ==
    IF o.kind # "response"
    THEN IF is_exhausted(increment(r, o)) THEN "raise" ELSE "retry"
    ELSE IF is_retry(o.status) /\ ~is_exhausted(increment(r, o))
         THEN "retry"
         ELSE "return"

----------------------------------------------------------------------------
(* The e-mail configuration and the e-mail API *)

EnvNames == {"RESEND_API_KEY", "SENDER_EMAIL", "RECIPIENT_EMAIL"}

\* longest RECIPIENT_EMAIL value of a whole run of main()
MaxEnvLen == 1

\* characters of the RECIPIENT_EMAIL values of a whole run of main()
EnvChars == {"b", ","}

Unset == [set |-> FALSE, value |-> <<>>]

Set(v) == [set |-> TRUE, value |-> v]

\* os.environ.get(name, "")
environ_get(e, name) == IF e[name].set THEN e[name].value ELSE <<>>

\* faulty variant: the emptiness test is dropped
require_env_raises_never(value) == FALSE

\* require_env raises: "if not value"
require_env_raises(value) == value = <<>>

\* environments whose RESEND_API_KEY and SENDER_EMAIL, if set, are among
\* values and whose RECIPIENT_EMAIL, if set, is among raws
Environments(values, raws) ==
    {[n \in EnvNames |->
        IF n = "RESEND_API_KEY" THEN k
        ELSE IF n = "SENDER_EMAIL" THEN s ELSE r] :
        k \in {Unset} \cup {Set(v) : v \in values},
        s \in {Unset} \cup {Set(v) : v \in values},
        r \in {Unset} \cup {Set(v) : v \in raws}}

\* texts the rejection message can hold between the parentheses: [^)]+
Groups ==
    StringsUpTo({"b"} \cup Whitespace, MaxGroupLen) \ {<<>>}

SendErrors ==
    {Exc("ResendError", "other")} \cup {SandboxRejection(g) : g \in Groups}

\* outcomes of the n-th resend.Emails.send call
SendOutcomes(n) ==
    {[ok |-> TRUE, response |-> n, exc |-> NoExc]}
        \cup {[ok |-> FALSE, response |-> 0, exc |-> e] : e \in SendErrors}

\* re.search(r"own email address \(([^)]+)\)", msg) matched
sandbox_match(e) == e.msg = "own email address"

\* m.group(1).strip()
allowed_address(e) == strip(e.group)

\* faulty variant: the comparison with the recipient list is dropped
should_retry_any_match(rcpts, e) ==
    sandbox_match(e) /\ allowed_address(e) # <<>>

\* "if m: ... if allowed and recipients != [allowed]"
should_retry(rcpts, e) ==
    /\ sandbox_match(e)
    /\ allowed_address(e) # <<>>
    /\ rcpts # <<allowed_address(e)>>

beijing_date == "2024-01-01"

subject == <<"GitHub Trending Daily Top 10", beijing_date>>

\* build_html_email: the date line and one table row per entry, ranked from 1
build_html_email(rs, date) ==
    [date |-> date, rows |-> [i \in 1..Len(rs) |-> [idx |-> i, url |-> rs[i].url]]]

NoHtml == [date |-> "", rows |-> <<>>]

send_params(sender, rcpts, body) ==
    [from |-> sender, to |-> rcpts, subject |-> subject, html |-> body]

\* faulty variant: the fallback goes to the configured recipients again
retry_params_same_to(params, allowed) == params

\* params_retry of send_email
retry_params(params, allowed) ==
    [from |-> params.from, to |-> <<allowed>>,
     subject |-> params.subject, html |-> params.html]

----------------------------------------------------------------------------
(* main(), one action per step *)

\* pages main() is given: at most MaxBadRows rows lack the title anchor
Pages == {p \in AllPages : Cardinality(BadRows(p)) <= MaxBadRows}

Init ==
    /\ pc = "create_session"
    /\ no_email \in BOOLEAN
    /\ env \in Environments({<<"k">>}, StringsUpTo(EnvChars, MaxEnvLen))
    /\ retries = NoRetry
    /\ requests = 0
    /\ status_code = 0
    /\ html = <<>>
    /\ repos = <<>>
    /\ email_html = NoHtml
    /\ recipients = <<>>
    /\ env_read = {}
    /\ sent = <<>>
    /\ results = <<>>
    /\ resp = 0
    /\ exc = NoExc
    /\ stdout = "nothing"
    /\ exit = -1
    /\ stages = <<>>

\* "with create_session() as session": fetch_trending_html is entered
create_session ==
    /\ pc = "create_session"
    /\ retries' = new_retry
    /\ stages' = Append(stages, "fetch")
    /\ pc' = "fetch"
    /\ UNCHANGED <<no_email, env, requests, status_code, html, repos,
                   email_html, recipients, env_read, sent, results, resp,
                   exc, stdout, exit>>

\* session.get: an attempt fails and the adapter sleeps and tries again
FetchRetry ==
    /\ pc = "fetch"
    /\ \E o \in AttemptOutcomes :
          /\ AttemptEnds(retries, o) = "retry"
          /\ retries' = increment(retries, o)
    /\ requests' = requests + 1
    /\ UNCHANGED <<pc, no_email, env, status_code, html, repos, email_html,
                   recipients, env_read, sent, results, resp, exc, stdout,
                   exit, stages>>

\* session.get: the retries are used up by a transport failure; the
\* exception leaves the with block, which closes the session
FetchRaise ==
    /\ pc = "fetch"
    /\ \E o \in AttemptOutcomes :
          /\ AttemptEnds(retries, o) = "raise"
    /\ retries' = NoRetry
    /\ requests' = requests + 1
    /\ exc' = Exc("ConnectionError", "Max retries exceeded")
    /\ pc' = "except"
    /\ UNCHANGED <<no_email, env, status_code, html, repos, email_html,
                   recipients, env_read, sent, results, resp, stdout, exit,
                   stages>>

\* session.get returns a response; raise_for_status; return resp.text; the
\* with block closes the session
FetchReturn ==
    /\ pc = "fetch"
    /\ \E o \in AttemptOutcomes :
          /\ AttemptEnds(retries, o) = "return"
          /\ status_code' = o.status
          /\ IF raise_for_status(o.status)
             THEN /\ exc' = Exc("HTTPError", "status")
                  /\ pc' = "except"
                  /\ html' = html
             ELSE /\ exc' = exc
                  /\ pc' = "parse"
                  /\ html' \in Pages
    /\ retries' = NoRetry
    /\ requests' = requests + 1
    /\ UNCHANGED <<no_email, env, repos, email_html, recipients, env_read,
                   sent, results, resp, stdout, exit, stages>>

\* faulty variant: nine entries are enough
too_few_off_by_one(rs) == Len(rs) < min_repos - 1

\* "if len(repos) < 10"
too_few(rs) == Len(rs) < min_repos

\* repos = parse_trending_top10(html); if len(repos) < 10: raise
Extract ==
    /\ pc = "parse"
    /\ repos' = parse_trending_top10(html)
    /\ stages' = Append(stages, "extract")
    /\ IF too_few(repos')
       THEN exc' = Exc("RuntimeError", "Parsed only n repos") /\ pc' = "except"
       ELSE exc' = exc /\ pc' = "render"
    /\ UNCHANGED <<no_email, env, retries, requests, status_code, html,
                   email_html, recipients, env_read, sent, results, resp,
                   stdout, exit>>

\* faulty variant: the flag is ignored
after_render_always_send(flag) == "send_email"

\* "if args.no_email"
after_render(flag) == IF flag THEN "print_html" ELSE "send_email"

\* email_html = build_html_email(repos, beijing_dt); subject = ...
Render ==
    /\ pc = "render"
    /\ email_html' = build_html_email(repos, beijing_date)
    /\ stages' = Append(stages, "render")
    /\ pc' = after_render(no_email)
    /\ UNCHANGED <<no_email, env, retries, requests, status_code, html, repos,
                   recipients, env_read, sent, results, resp, exc, stdout,
                   exit>>

\* print(email_html); return 0
PrintHtml ==
    /\ pc = "print_html"
    /\ stdout' = "email_html"
    /\ exit' = 0
    /\ pc' = "done"
    /\ UNCHANGED <<no_email, env, retries, requests, status_code, html, repos,
                   email_html, recipients, env_read, sent, results, resp, exc,
                   stages>>

\* the names require_env is called with until one raises
NamesRead(e) ==
    IF require_env_raises(environ_get(e, "RESEND_API_KEY"))
    THEN {"RESEND_API_KEY"}
    ELSE IF require_env_raises(environ_get(e, "SENDER_EMAIL"))
    THEN {"RESEND_API_KEY", "SENDER_EMAIL"}
    ELSE EnvNames

\* the exception the head of send_email raises on e (NoExc if none)
ConfigFailure(e) ==
    IF require_env_raises(environ_get(e, "RESEND_API_KEY"))
    THEN Exc("RuntimeError", "Missing required environment variable: RESEND_API_KEY")
    ELSE IF require_env_raises(environ_get(e, "SENDER_EMAIL"))
    THEN Exc("RuntimeError", "Missing required environment variable: SENDER_EMAIL")
    ELSE IF require_env_raises(environ_get(e, "RECIPIENT_EMAIL"))
    THEN Exc("RuntimeError", "Missing required environment variable: RECIPIENT_EMAIL")
    ELSE IF parse_recipients(environ_get(e, "RECIPIENT_EMAIL")) = <<>>
    THEN Exc("RuntimeError", "RECIPIENT_EMAIL is empty")
    ELSE NoExc

\* send_email up to "resend.api_key = api_key"
ReadConfig ==
    /\ pc = "send_email"
    /\ stages' = Append(stages, "send")
    /\ env_read' = NamesRead(env)
    /\ IF ConfigFailure(env) # NoExc
       THEN /\ exc' = ConfigFailure(env)
            /\ pc' = "except"
            /\ recipients' = recipients
       ELSE /\ exc' = exc
            /\ pc' = "submit"
            /\ recipients' = parse_recipients(environ_get(env, "RECIPIENT_EMAIL"))
    /\ UNCHANGED <<no_email, env, retries, requests, status_code, html, repos,
                   email_html, sent, results, resp, stdout, exit>>

\* the first resend.Emails.send and, if it raises, the except clause up to
\* the decision to retry or re-raise
Submit ==
    /\ pc = "submit"
    /\ sent' = Append(sent, send_params(environ_get(env, "SENDER_EMAIL"),
                                        recipients, email_html))
    /\ \E o \in SendOutcomes(Len(sent) + 1) :
          /\ results' = Append(results, o)
          /\ IF o.ok
             THEN resp' = o.response /\ exc' = exc /\ pc' = "print_resp"
             ELSE IF should_retry(recipients, o.exc)
             THEN resp' = resp /\ exc' = exc /\ pc' = "retry"
             ELSE resp' = resp /\ exc' = o.exc /\ pc' = "except"
    /\ UNCHANGED <<no_email, env, retries, requests, status_code, html, repos,
                   email_html, recipients, env_read, stdout, exit, stages>>

\* return resend.Emails.send(params_retry)
Resubmit ==
    /\ pc = "retry"
    /\ sent' = Append(sent, retry_params(sent[1], allowed_address(results[1].exc)))
    /\ \E o \in SendOutcomes(Len(sent) + 1) :
          /\ results' = Append(results, o)
          /\ IF o.ok
             THEN resp' = o.response /\ exc' = exc /\ pc' = "print_resp"
             ELSE resp' = resp /\ exc' = o.exc /\ pc' = "except"
    /\ UNCHANGED <<no_email, env, retries, requests, status_code, html, repos,
                   email_html, recipients, env_read, stdout, exit, stages>>

\* print(resp); return 0
PrintResp ==
    /\ pc = "print_resp"
    /\ stdout' = "resp"
    /\ exit' = 0
    /\ pc' = "done"
    /\ UNCHANGED <<no_email, env, retries, requests, status_code, html, repos,
                   email_html, recipients, env_read, sent, results, resp, exc,
                   stages>>

\* faulty variant: the handler reports success
Except_returns_zero ==
    /\ pc = "except"
    /\ exit' = 0
    /\ pc' = "done"
    /\ UNCHANGED <<no_email, env, retries, requests, status_code, html, repos,
                   email_html, recipients, env_read, sent, results, resp, exc,
                   stdout, stages>>

\* "except Exception as exc: ... return 1"
Except ==
    /\ pc = "except"
    /\ exit' = 1
    /\ pc' = "done"
    /\ UNCHANGED <<no_email, env, retries, requests, status_code, html, repos,
                   email_html, recipients, env_read, sent, results, resp, exc,
                   stdout, stages>>

Next ==
    \/ create_session
    \/ FetchRetry
    \/ FetchRaise
    \/ FetchReturn
    \/ Extract
    \/ Render
    \/ PrintHtml
    \/ ReadConfig
    \/ Submit
    \/ Resubmit
    \/ PrintResp
    \/ Except

Spec == Init /\ [][Next]_vars

----------------------------------------------------------------------------
(* send_email alone: called by a run that fetched, extracted and rendered *)
(* a page of ten well-formed rows                                         *)

GoodPage == [i \in 1..rows_limit |-> Row(i, TRUE)]

InitAtSendEmail(envs) ==
    /\ pc = "send_email"
    /\ no_email = FALSE
    /\ env \in envs
    /\ retries = NoRetry
    /\ requests = 1
    /\ status_code = 200
    /\ html = GoodPage
    /\ repos = parse_trending_top10(GoodPage)
    /\ email_html = build_html_email(parse_trending_top10(GoodPage), beijing_date)
    /\ recipients = <<>>
    /\ env_read = {}
    /\ sent = <<>>
    /\ results = <<>>
    /\ resp = 0
    /\ exc = NoExc
    /\ stdout = "nothing"
    /\ exit = -1
    /\ stages = <<"fetch", "extract", "render">>

InitSend ==
    InitAtSendEmail(Environments({<<>>, <<"k">>}, StringsUpTo(Chars, MaxConfigLen)))

NextSend ==
    \/ ReadConfig
    \/ Submit
    \/ Resubmit
    \/ PrintResp
    \/ Except

SpecSend == InitSend /\ [][NextSend]_vars

(* parse_recipients alone: the head of send_email on every raw string *)

InitRecipients ==
    InitAtSendEmail({[n \in EnvNames |->
                        IF n = "RECIPIENT_EMAIL" THEN Set(raw) ELSE Set(<<"k">>)] :
                     raw \in StringsUpTo(Chars, MaxRawLen)})

SpecRecipients == InitRecipients /\ [][ReadConfig]_vars

(* parse_trending_top10 alone: main() after a fetch that returned any page *)

InitParse ==
    /\ pc = "parse"
    /\ no_email = TRUE
    /\ env = [n \in EnvNames |-> Unset]
    /\ retries = NoRetry
    /\ requests = 1
    /\ status_code = 200
    /\ html \in AllPages
    /\ repos = <<>>
    /\ email_html = NoHtml
    /\ recipients = <<>>
    /\ env_read = {}
    /\ sent = <<>>
    /\ results = <<>>
    /\ resp = 0
    /\ exc = NoExc
    /\ stdout = "nothing"
    /\ exit = -1
    /\ stages = <<"fetch">>

SpecParse == InitParse /\ [][Extract]_vars

----------------------------------------------------------------------------
(* Properties *)

\* send_email has returned or raised
SendEmailOver == pc \in {"print_resp", "except", "done"} /\ "send" \in Seq2Set(stages)

\* the first submission was rejected with a message naming the address addr
\* while the resolved recipient list is not exactly [addr]
SandboxedTo(addr) ==
    /\ Len(results) >= 1
    /\ ~results[1].ok
    /\ results[1].exc.msg = "own email address"
    /\ strip(results[1].exc.group) = addr
    /\ addr # <<>>
    /\ recipients # <<addr>>

\* C1: once send_email is over after a first submission rejected with a
\* message naming the owner address addr, the recipient list not being
\* exactly [addr], exactly one more message was submitted, to [addr] alone,
\* with the sender, subject and body of the first, and what send_email
\* returns or raises is what that second submission returned or raised.
C1_FallbackToOwner ==
    \A g \in Groups :
        (SendEmailOver /\ SandboxedTo(strip(g))) =>
            /\ Len(sent) = 2
            /\ sent[2].to = <<strip(g)>>
            /\ sent[2].from = sent[1].from
            /\ sent[2].subject = sent[1].subject
            /\ sent[2].html = sent[1].html
            /\ Len(results) = 2
            /\ IF results[2].ok
               THEN resp = results[2].response /\ exc = NoExc
               ELSE exc = results[2].exc

C1_Witness ==
    /\ pc = "done"
    /\ exit = 0
    /\ Len(sent) = 2
    /\ sent[1].to = <<<<"a">>, <<"b">>>>
    /\ sent[2].to = <<<<"b">>>>
    /\ results[1].exc.group = <<" ", "b">>

\* C2: send_email submits at most twice; a first failure that is no sandbox
\* rejection, or whose address is already the sole recipient, reaches the
\* caller with no second submission; a failed second submission reaches the
\* caller with no third.
C2_AtMostTwoSubmissions ==
    /\ Len(sent) <= 2
    /\ Len(results) <= Len(sent)
    /\ (/\ SendEmailOver
        /\ Len(results) >= 1
        /\ ~results[1].ok
        /\ \/ results[1].exc.msg # "own email address"
           \/ recipients = <<strip(results[1].exc.group)>>)
          => Len(sent) = 1 /\ exc = results[1].exc /\ pc \in {"except", "done"}
    /\ (Len(results) = 2 /\ ~results[2].ok)
          => Len(sent) = 2 /\ exc = results[2].exc /\ pc \in {"except", "done"}

C2_Witness ==
    /\ pc = "done"
    /\ exit = 1
    /\ Len(sent) = 2
    /\ ~results[2].ok
    /\ results[2].exc.msg = "own email address"

\* the spec's ShortResultError: the RuntimeError of main, "Parsed only n repos"
ShortResultError(e) == e = Exc("RuntimeError", "Parsed only n repos")

\* C3: when the extractor returned fewer than 10 entries, the run is failing
\* with the short-result error, ends with a non-zero status, and has neither
\* rendered nor read the e-mail configuration nor submitted anything.
C3_ShortResultIsFatal ==
    ("extract" \in Seq2Set(stages) /\ Len(repos) < 10) =>
        /\ ShortResultError(exc)
        /\ pc \in {"except", "done"}
        /\ pc = "done" => exit # 0 /\ exit # -1
        /\ sent = <<>>
        /\ env_read = {}
        /\ email_html = NoHtml
        /\ stages = <<"fetch", "extract">>

C3_Witness ==
    /\ pc = "done"
    /\ exit = 1
    /\ Len(repos) = 9
    /\ Len(html) = 10
    /\ ~no_email

StageOrder == <<"fetch", "extract", "render", "send">>

\* the stage an exception is raised in
FailedStage(e) ==
    IF e.type \in {"ConnectionError", "HTTPError"} THEN 1
    ELSE IF ShortResultError(e) THEN 2
    ELSE 4

\* C4: the stages entered are a prefix of fetch, extract, render, send; after
\* a failure no later stage is entered and main returns non-zero; main
\* returns 0 only without a failure; every run goes on until main returns
\* 0 or 1.
C4_FailFastPipeline ==
    /\ Len(stages) <= Len(StageOrder)
    /\ \A i \in 1..Len(stages) : stages[i] = StageOrder[i]
    /\ exc # NoExc =>
          /\ Len(stages) = FailedStage(exc)
          /\ pc \in {"except", "done"}
    /\ pc = "done" => exit \in {0, 1} /\ (exit = 0 <=> exc = NoExc)
    /\ pc # "done" => exit = -1 /\ ENABLED Next

C4_Witness ==
    /\ pc = "done"
    /\ exit = 1
    /\ exc.type = "HTTPError"
    /\ stages = <<"fetch">>
    /\ ~no_email

\* the value of an environment variable, missing counting as empty
Configured(name) == IF env[name].set THEN env[name].value ELSE <<>>

\* the spec's ConfigError: the RuntimeError of require_env or of the empty
\* recipient list
ConfigError(e) ==
    /\ e.type = "RuntimeError"
    /\ e.msg \in {"Missing required environment variable: RESEND_API_KEY",
                  "Missing required environment variable: SENDER_EMAIL",
                  "Missing required environment variable: RECIPIENT_EMAIL",
                  "RECIPIENT_EMAIL is empty"}

\* a required value is missing or empty, or the raw recipient string holds
\* nothing but commas and whitespace
BadConfig ==
    \/ \E n \in EnvNames : Configured(n) = <<>>
    \/ \A i \in 1..Len(Configured("RECIPIENT_EMAIL")) :
          Configured("RECIPIENT_EMAIL")[i] \in {",", " "}

\* C5: with a required configuration value missing or empty, or a raw
\* recipient string of commas and whitespace only, send_email raises the
\* configuration error and nothing is ever submitted to the e-mail API.
C5_BadConfigNeverSubmits ==
    BadConfig =>
        /\ sent = <<>>
        /\ results = <<>>
        /\ pc \in {"send_email", "except", "done"}
        /\ pc # "send_email" => ConfigError(exc) /\ resp = 0

C5_Witness ==
    /\ pc = "done"
    /\ exit = 1
    /\ Configured("RESEND_API_KEY") # <<>>
    /\ Configured("SENDER_EMAIL") # <<>>
    /\ Configured("RECIPIENT_EMAIL") = <<",", " ">>
    /\ exc.msg = "RECIPIENT_EMAIL is empty"
    /\ sent = <<>>

\* the rows among the first 10 of the page that have a title anchor
TitledTop10 == {i \in 1..Len(html) : i <= 10 /\ html[i].has_anchor}

\* the k-th of them in document order
KthTitled(k) ==
    CHOOSE i \in TitledTop10 : Cardinality({j \in TitledTop10 : j < i}) = k - 1

\* C6: parse_trending_top10 returns one entry for each of the first 10 rows
\* that has a title anchor, in document order, and nothing else: the k-th
\* entry is built from the k-th such row.
C6_FirstTenTitledRows ==
    "extract" \in Seq2Set(stages) =>
        /\ Len(repos) = Cardinality(TitledTop10)
        /\ \A k \in 1..Len(repos) :
              repos[k] = [url |-> <<"https://github.com", html[KthTitled(k)].href>>]
        /\ (\A i \in 1..Len(html) : html[i].has_anchor) =>
              Len(repos) = IF Len(html) <= 10 THEN Len(html) ELSE 10

C6_Witness ==
    /\ "extract" \in Seq2Set(stages)
    /\ Len(html) = 11
    /\ ~html[3].has_anchor
    /\ html[11].has_anchor
    /\ Len(repos) = 9
    /\ repos[3].url = <<"https://github.com", 4>>

\* the raw recipient string of the environment
Raw == Configured("RECIPIENT_EMAIL")

IsDelimiter(c) == c \in {",", " "}

\* <<i, j>>: raw[i..j] is a token, a maximal stretch without comma or space
Tokens ==
    {ij \in (1..Len(Raw)) \X (1..Len(Raw)) :
        /\ ij[1] <= ij[2]
        /\ \A k \in ij[1]..ij[2] : ~IsDelimiter(Raw[k])
        /\ ij[1] = 1 \/ IsDelimiter(Raw[ij[1] - 1])
        /\ ij[2] = Len(Raw) \/ IsDelimiter(Raw[ij[2] + 1])}

\* where the token text t first starts in raw
FirstStart(t) ==
    CHOOSE i \in 1..Len(Raw) :
        /\ \E ij \in Tokens : ij[1] = i /\ SubSeq(Raw, ij[1], ij[2]) = t
        /\ \A ij \in Tokens : SubSeq(Raw, ij[1], ij[2]) = t => i <= ij[1]

\* C7: parse_recipients returns the tokens of the raw string: none empty,
\* none twice, every distinct token present, in order of first occurrence.
C7_RecipientsAreDistinctTokens ==
    pc # "send_email" =>
        /\ \A k \in 1..Len(recipients) : recipients[k] # <<>>
        /\ \A k, l \in 1..Len(recipients) : k # l => recipients[k] # recipients[l]
        /\ Seq2Set(recipients) = {SubSeq(Raw, ij[1], ij[2]) : ij \in Tokens}
        /\ \A k, l \in 1..Len(recipients) :
              k < l => FirstStart(recipients[k]) < FirstStart(recipients[l])

C7_Witness ==
    /\ pc = "submit"
    /\ Raw = <<"b", ",", "a", " ", "b">>
    /\ recipients = <<<<"b">>, <<"a">>>>

\* the fetch is over
FetchOver == pc \notin {"create_session", "fetch"}

FetchFailed == exc.type \in {"ConnectionError", "HTTPError"}

C9_AtMostThreeRequests == requests <= 3

\* C9, amended: at most 4 GET requests are sent for the page, the first
\* attempt and 3 retries.
C9_AtMostFourRequests == requests <= 4

C9_Witness == requests = 4 /\ exc.type = "ConnectionError"

\* C10: with --no-email the e-mail configuration is never read and nothing
\* is submitted; a run that extracted 10 entries prints the rendered HTML
\* and returns 0, whatever the configuration.
C10_PrintOnly ==
    no_email =>
        /\ env_read = {}
        /\ sent = <<>>
        /\ "send" \notin Seq2Set(stages)
        /\ (pc = "done" /\ "extract" \in Seq2Set(stages) /\ Len(repos) = 10) =>
              /\ stdout = "email_html"
              /\ exit = 0
              /\ email_html = build_html_email(repos, beijing_date)

C10_Witness ==
    /\ no_email
    /\ pc = "done"
    /\ exit = 0
    /\ stdout = "email_html"
    /\ \A n \in EnvNames : ~env[n].set

====
